---- MODULE Spec2Model ----
(***************************************************************************)
(* A model of the Graph class of graph-theorists-sketchpad (src/graph.ts)  *)
(* with the subscribers main.ts wires to it.  The node list, the edge      *)
(* list, the label counters and the selection are the state; the DOM       *)
(* event handlers and the control panel commands are the actions.          *)
(*                                                                         *)
(* Representation.  A THREE.Mesh of Graph.spheres and an Edge of           *)
(* Graph.edges are objects; the model names an object by its current index *)
(* in its list.  A reference to an object (an edge's sphere1 / sphere2,    *)
(* firstSelectedSphere, selectedEdge) is that index; when an element is    *)
(* filtered out of a list, every reference to a later element is moved     *)
(* down with it and a reference to the element itself becomes `removed`,   *)
(* a reference to an object that is no longer in the list.  The text of    *)
(* the CSS2D label attached to an object is the field labelText.  A        *)
(* parallel offset is always an integer multiple k of baseOffset (0.5 in   *)
(* the source): the model stores the multiple k, in a sequence that is     *)
(* empty when the field is undefined (loops).  An optional field          *)
(* (isBridge) is a sequence too, empty while undefined.  Of a mesh's       *)
(* material the model keeps the colour, as the string the source sets.     *)
(***************************************************************************)
EXTENDS Integers, Sequences, FiniteSets, TLC

\* ---------------------------------------------------------------- bounds
MaxNodes == 2
MaxEdges == 3
\* createEdge increments edgeCounter before it may reject: the guard of the
\* click handler caps the counter.
MaxEdgeCounter == 3

null == 0
removed == -1
undefined == << >>

\* Keys onKeyDown reacts to (create, drag, delete), and the texts the label command may set.
Keys == {"v", "m", "d"}
StoreKeys == {"v", "d"}
NewLabels == {"x"}

VARIABLES
    spheres,              \* Graph.spheres: sequence of [labelText, color, position]
    edges,                \* Graph.edges: sequence of Edge records
    firstSelectedSphere,  \* the selected node, or null
    selectedEdge,         \* the selected edge, or null
    nodeCreationMode,
    previewSphere,        \* TRUE iff a preview mesh exists
    nodeCounter,
    edgeCounter,
    dragActive,
    eventLog,             \* history: the event last handled, then the callbacks invoked while handling it
    statusBar,            \* main.ts: the counts last written to #vertex-count / #edge-count
    analysis,             \* history: the analysis command last run and what the graph returned to it
    chromaticNumberInfo,  \* #chromatic-number-info: << >> while hidden, << the number shown >> otherwise
    mouse,                \* Graph.mouse: the pointer position last seen by onMouseMove
    previewPosition,      \* previewSphere.position: << >> while there is no preview mesh
    directed,             \* Graph.directed
    orphanArrowHeads,     \* the arrowheads in the scene that belong to no edge of the
                          \* list, told apart only by whether they are visible
    callbacks,            \* who assigned graph.onNodeSelected / graph.onNodeDeselected last
    nodeFolderDisplay     \* style.display of the Node Settings folder of the control panel

vars == << spheres, edges, firstSelectedSphere, selectedEdge, nodeCreationMode,
           previewSphere, nodeCounter, edgeCounter, dragActive, eventLog, statusBar,
           analysis, chromaticNumberInfo, mouse, previewPosition,
           directed, orphanArrowHeads, callbacks, nodeFolderDisplay >>

\* A DOM event or a control panel command, with what the graph held when it arrived.
Event(name, input) ==
    [ name |-> name, input |-> input,
      nodeCount |-> Len(spheres), edgeCount |-> Len(edges),
      selectedNode |-> firstSelectedSphere, selectedEdge |-> selectedEdge ]

\* The object `this` as a record, so that a method is an operator from the
\* object before the call to the object after it.  The log restarts at
\* every event.
This(event) ==
    [ spheres |-> spheres, edges |-> edges,
      firstSelectedSphere |-> firstSelectedSphere, selectedEdge |-> selectedEdge,
      nodeCreationMode |-> nodeCreationMode, previewSphere |-> previewSphere,
      nodeCounter |-> nodeCounter, edgeCounter |-> edgeCounter,
      dragActive |-> dragActive, eventLog |-> << event >>, statusBar |-> statusBar,
      analysis |-> analysis, chromaticNumberInfo |-> chromaticNumberInfo,
      mouse |-> mouse, previewPosition |-> previewPosition,
      directed |-> directed, orphanArrowHeads |-> orphanArrowHeads,
      callbacks |-> callbacks, nodeFolderDisplay |-> nodeFolderDisplay ]

Becomes(t) ==
    /\ spheres' = t.spheres
    /\ edges' = t.edges
    /\ firstSelectedSphere' = t.firstSelectedSphere
    /\ selectedEdge' = t.selectedEdge
    /\ nodeCreationMode' = t.nodeCreationMode
    /\ previewSphere' = t.previewSphere
    /\ nodeCounter' = t.nodeCounter
    /\ edgeCounter' = t.edgeCounter
    /\ dragActive' = t.dragActive
    /\ eventLog' = t.eventLog
    /\ statusBar' = t.statusBar
    /\ analysis' = t.analysis
    /\ chromaticNumberInfo' = t.chromaticNumberInfo
    /\ mouse' = t.mouse
    /\ previewPosition' = t.previewPosition
    /\ directed' = t.directed
    /\ orphanArrowHeads' = t.orphanArrowHeads
    /\ callbacks' = t.callbacks
    /\ nodeFolderDisplay' = t.nodeFolderDisplay

\* ---------------------------------------------------------------- helpers
Range(s) == { s[i] : i \in 1..Len(s) }
Nodes(t) == 1..Len(t.spheres)
Edges(t) == 1..Len(t.edges)

\* Array.prototype.filter: the indices from i on, in order, at which the
\* predicate's value keep[i] is true.
RECURSIVE KeptIndices(_, _)
KeptIndices(keep, i) ==
    IF i > Len(keep) THEN << >>
    ELSE (IF keep[i] THEN << i >> ELSE << >>) \o KeptIndices(keep, i + 1)

\* A reference to element ref of a list, after the list was filtered down to
\* the elements at the indices kept.
MoveRef(ref, kept) ==
    IF ref = null \/ ref = removed THEN ref
    ELSE IF \E j \in 1..Len(kept) : kept[j] = ref
         THEN CHOOSE j \in 1..Len(kept) : kept[j] = ref
         ELSE removed

\* 'v' + n and 'e' + n: JavaScript string concatenation of a number.
NodeLabelText(n) == "v" \o ToString(n)
EdgeLabelText(n) == "e" \o ToString(n)

\* edge.parallelOffset || 0
OffsetOrZero(e) == IF e.parallelOffset = undefined THEN 0 ELSE e.parallelOffset[1]

Call(name, arg) == [ name |-> name, arg |-> arg ]

getNodeCount(t) == Len(t.spheres)
getEdgeCount(t) == Len(t.edges)
getSelectedNode(t) == t.firstSelectedSphere

\* Mutant: the degree of graph theory, a loop counted at both of its ends.
getDegree_LoopTwice(t, node) ==
    Len(SelectSeq(t.edges, LAMBDA e : e.sphere1 = node))
      + Len(SelectSeq(t.edges, LAMBDA e : e.sphere2 = node))

getDegree(t, node) == Len(SelectSeq(t.edges, LAMBDA e : e.sphere1 = node \/ e.sphere2 = node))

\* What a subscriber of the notification can read from the graph when it is
\* called: the selection, and the labels and the ends of what the lists hold.
Readable(t) ==
    [ selectedNode |-> getSelectedNode(t), selectedEdge |-> t.selectedEdge,
      nodeLabels |-> [ n \in 1..Len(t.spheres) |-> t.spheres[n].labelText ],
      edgeLabels |-> [ k \in 1..Len(t.edges) |-> t.edges[k].labelText ],
      ends |-> [ k \in 1..Len(t.edges) |-> << t.edges[k].sphere1, t.edges[k].sphere2 >> ] ]

\* main.ts: graph.onGraphChanged re-reads the counts.
onGraphChanged(t) ==
    [ t EXCEPT !.eventLog = Append(@, Call("onGraphChanged", Readable(t))),
               !.statusBar = [ vertexCount |-> getNodeCount(t), edgeCount |-> getEdgeCount(t) ] ]

\* new GraphGUI(graph) (main.ts:48): the constructor assigns
\* graph.onNodeSelected; graph.onNodeDeselected is still null.
GraphGUIConstructed == [ onNodeSelected |-> "GraphGUI", onNodeDeselected |-> "null" ]

\* main.ts:66-77, after the construction of the GraphGUI: both callbacks are
\* assigned again.
Wired == [ GraphGUIConstructed EXCEPT !.onNodeSelected = "main", !.onNodeDeselected = "main" ]

\* graph.onNodeSelected(node).  The callback of main.ts reads the degree of
\* the node and shows it; the one of graph_gui.ts shows the Node Settings
\* folder as well and assigns graph.onNodeDeselected.
onNodeSelected(t, node) ==
    LET deg == getDegree(t, node)
        called == [ t EXCEPT !.eventLog =
                      Append(@, Call("onNodeSelected", [ node |-> node, deg |-> deg ])) ]
    IN IF t.callbacks.onNodeSelected = "GraphGUI"
       THEN [ called EXCEPT !.nodeFolderDisplay = "block",
                            !.callbacks.onNodeDeselected = "GraphGUI" ]
       ELSE called

\* graph.onNodeDeselected(): the callback of graph_gui.ts hides the Node
\* Settings folder, the one of main.ts the degree only.
onNodeDeselected(t) ==
    IF t.callbacks.onNodeDeselected = "null" THEN t
    ELSE LET called == [ t EXCEPT !.eventLog = Append(@, Call("onNodeDeselected", null)) ]
         IN IF t.callbacks.onNodeDeselected = "GraphGUI"
            THEN [ called EXCEPT !.nodeFolderDisplay = "none" ]
            ELSE called

\* ---------------------------------------------------------------- labels
\* Mutant: the counter is reset but the labels are not rewritten.
updateAllNodeLabels_NoRelabel(t) == [ t EXCEPT !.nodeCounter = Len(t.spheres) ]

\* updateAllNodeLabels: every label is rewritten by position, then the counter is reset.
updateAllNodeLabels(t) ==
    [ t EXCEPT !.spheres = [ i \in 1..Len(t.spheres) |->
                               [ t.spheres[i] EXCEPT !.labelText = NodeLabelText(i) ] ],
               !.nodeCounter = Len(t.spheres) ]

\* Mutant: the counter is reset but the labels are not rewritten.
updateAllEdgeLabels_NoRelabel(t) == [ t EXCEPT !.edgeCounter = Len(t.edges) ]

updateAllEdgeLabels(t) ==
    [ t EXCEPT !.edges = [ i \in 1..Len(t.edges) |->
                             [ t.edges[i] EXCEPT !.labelText = EdgeLabelText(i) ] ],
               !.edgeCounter = Len(t.edges) ]

\* updateNodeLabel: the label command of the control panel, on the selected node.
updateNodeLabel(t, newLabel) ==
    LET node == t.firstSelectedSphere IN
    IF node /= null
    THEN [ t EXCEPT !.spheres[node].labelText = newLabel ]
    ELSE t

\* ---------------------------------------------------------------- geometry
\* Points and directions have integer coordinates: the pointer positions
\* followed are those whose ray from the camera has the direction
\* (mouse.x, mouse.y, -1), taken without normalising its length.
Vector2(x, y) == [ x |-> x, y |-> y ]
Vector3(x, y, z) == [ x |-> x, y |-> y, z |-> z ]

cameraPosition == Vector3(0, 10, 30)
previewDistance == 10

\* raycaster.setFromCamera(mouse, camera): the direction of the ray.
rayDirection(pointer) == Vector3(pointer.x, pointer.y, -1)

\* direction.multiplyScalar(distance).add(camera.position)
rayAt(pointer, distance) ==
    LET direction == rayDirection(pointer)
    IN Vector3(cameraPosition.x + distance * direction.x,
               cameraPosition.y + distance * direction.y,
               cameraPosition.z + distance * direction.z)

\* ray.intersectPlane on the horizontal plane at the given height: << the
\* point >>, or << >> for null when the ray runs beside the plane or away
\* from it.  The directions followed have y in {-1, 0, 1}, so that dividing
\* by the y component is multiplying by it.
intersectPlane(pointer, height) ==
    LET denominator == rayDirection(pointer).y
        distance == (height - cameraPosition.y) * denominator
    IN IF denominator = 0
       THEN IF height = cameraPosition.y THEN << rayAt(pointer, 0) >> ELSE << >>
       ELSE IF distance >= 0 THEN << rayAt(pointer, distance) >> ELSE << >>

\* What the points of an edge's line are computed from: the positions of
\* the two ends and the offset of the control point (none for a loop).
createCurvedEdgePoints(t, sphere1, sphere2, offset) ==
    [ start |-> t.spheres[sphere1].position, end |-> t.spheres[sphere2].position,
      offset |-> << offset >> ]

createLoopEdgePoints(t, node) ==
    [ start |-> t.spheres[node].position, end |-> t.spheres[node].position,
      offset |-> undefined ]

\* ---------------------------------------------------------------- arrowheads
\* An ArrowHelper: whether it is visible, and the curve its midpoint and
\* tangent were computed from.
addArrowhead(t, edge) ==
    IF t.edges[edge].isLoop THEN t
    ELSE [ t EXCEPT !.edges[edge].arrowHead =
             << [ visible |-> t.directed,
                  curve |-> createCurvedEdgePoints(t, t.edges[edge].sphere1, t.edges[edge].sphere2,
                                OffsetOrZero(t.edges[edge])) ] >> ]

\* addArrowhead applied, in the order of the list, to the edges from index k
\* on at which the sequence of booleans `which` is true.
RECURSIVE addArrowheadsFrom(_, _, _)
addArrowheadsFrom(t, which, k) ==
    IF k > Len(t.edges) THEN t
    ELSE addArrowheadsFrom(IF which[k] THEN addArrowhead(t, k) ELSE t, which, k + 1)

\* Mutant: only the arrowheads that exist are recomputed.
updateDirectedEdges_ExistingOnly(t) ==
    addArrowheadsFrom(t, [ k \in 1..Len(t.edges) |-> t.edges[k].arrowHead /= undefined ], 1)

\* this.edges.forEach(edge => { if (!edge.isLoop) ... this.addArrowhead(edge) })
updateDirectedEdges(t) ==
    addArrowheadsFrom(t, [ k \in 1..Len(t.edges) |-> ~t.edges[k].isLoop ], 1)

\* ---------------------------------------------------------------- parallel edges
\* 0.5 in the source; the unit in which the model counts offsets.
baseOffset == 1

\* The filter createEdge and updateParallelEdgesForNodes share.
SameUnorderedPair(e, sphere1, sphere2) ==
    /\ ~e.isLoop
    /\ \/ (e.sphere1 = sphere1 /\ e.sphere2 = sphere2)
       \/ (e.sphere1 = sphere2 /\ e.sphere2 = sphere1)

\* relatedEdges, as the indices in this.edges of the edges the filter keeps.
relatedEdges(t, sphere1, sphere2) ==
    KeptIndices([ i \in 1..Len(t.edges) |-> SameUnorderedPair(t.edges[i], sphere1, sphere2) ], 1)

\* Mutant: the siblings are sorted by descending offset.
InsertByOffset_Descending(t, i, sorted) ==
    LET before == SelectSeq(sorted, LAMBDA j : OffsetOrZero(t.edges[j]) >= OffsetOrZero(t.edges[i]))
        after  == SelectSeq(sorted, LAMBDA j : OffsetOrZero(t.edges[j]) < OffsetOrZero(t.edges[i]))
    IN before \o << i >> \o after

\* Array.prototype.sort with (a, b) => (a.parallelOffset || 0) - (b.parallelOffset || 0):
\* a stable sort, as an insertion sort that puts an element after its equals.
InsertByOffset(t, i, sorted) ==
    LET before == SelectSeq(sorted, LAMBDA j : OffsetOrZero(t.edges[j]) <= OffsetOrZero(t.edges[i]))
        after  == SelectSeq(sorted, LAMBDA j : OffsetOrZero(t.edges[j]) > OffsetOrZero(t.edges[i]))
    IN before \o << i >> \o after

RECURSIVE SortByOffset(_, _)
SortByOffset(t, s) ==
    IF s = << >> THEN << >>
    ELSE InsertByOffset(t, s[Len(s)], SortByOffset(t, SubSeq(s, 1, Len(s) - 1)))

\* The index (from 0, as forEach counts) at which s holds x.
IndexIn(s, x) == (CHOOSE i \in 1..Len(s) : s[i] = x) - 1

\* newOffset = (i - mid) * baseOffset, mid = Math.floor(count / 2)
newOffset(i, count) == (i - (count \div 2)) * baseOffset

\* Mutant: the family is never re-centered.
updateParallelEdgesForNodes_Skip(t, sphere1, sphere2) == t

updateParallelEdgesForNodes(t, sphere1, sphere2) ==
    LET related == relatedEdges(t, sphere1, sphere2)
        count   == Len(related)
        sorted  == SortByOffset(t, related)
    IN IF count <= 1 THEN t
       ELSE [ t EXCEPT !.edges = [ k \in 1..Len(t.edges) |->
                 IF k \in Range(related)
                 THEN [ t.edges[k] EXCEPT
                          !.parallelOffset = << newOffset(IndexIn(sorted, k), count) >>,
                          !.positions = createCurvedEdgePoints(t, t.edges[k].sphere1, t.edges[k].sphere2,
                                            newOffset(IndexIn(sorted, k), count)) ]
                 ELSE t.edges[k] ] ]

\* ---------------------------------------------------------------- nodes
createPreviewNode(t) == [ t EXCEPT !.previewSphere = TRUE, !.previewPosition = Vector3(0, 0, 0) ]

updatePreviewNodePosition(t) ==
    IF t.previewSphere
    THEN [ t EXCEPT !.previewPosition = rayAt(t.mouse, previewDistance) ]
    ELSE t

\* Mutant: the preview mesh is not removed.
exitNodeCreationMode_KeepsPreview(t) == [ t EXCEPT !.nodeCreationMode = FALSE ]

exitNodeCreationMode(t) ==
    [ t EXCEPT !.previewSphere = FALSE, !.previewPosition = undefined,
               !.nodeCreationMode = FALSE ]

createNode(t, position) ==
    LET nodeId == t.nodeCounter + 1
        sphere == [ labelText |-> NodeLabelText(nodeId), color |-> "#0077ff",
                    position |-> position ]
    IN onGraphChanged([ t EXCEPT !.nodeCounter = nodeId, !.spheres = Append(@, sphere) ])

\* ---------------------------------------------------------------- edges
\* Mutant: the check for an existing loop is missing.
existingLoop_Never(t, sphere1) == FALSE

existingLoop(t, sphere1) == \E i \in Edges(t) : t.edges[i].isLoop /\ t.edges[i].sphere1 = sphere1

\* Mutant: the new edge is always put on the positive side.
usedOffset_AlwaysPlus(parallelCount) ==
    LET offsetIndex == (parallelCount + 1) \div 2
    IN offsetIndex * baseOffset

\* usedOffset = sign * Math.ceil(parallelCount / 2) * baseOffset
usedOffset(parallelCount) ==
    LET offsetIndex == (parallelCount + 1) \div 2
        sign == IF parallelCount % 2 = 0 THEN 1 ELSE -1
    IN sign * offsetIndex * baseOffset

createEdge(t, sphere1, sphere2) ==
    LET edgeId == t.edgeCounter + 1
        t1 == [ t EXCEPT !.edgeCounter = edgeId ]
    IN IF sphere1 = sphere2 /\ existingLoop(t1, sphere1)
       THEN t1
       ELSE LET isLoop == (sphere1 = sphere2)
                parallelCount == Len(relatedEdges(t1, sphere1, sphere2))
                newEdge == [ sphere1 |-> sphere1, sphere2 |-> sphere2, isLoop |-> isLoop,
                             parallelOffset |-> IF isLoop THEN undefined
                                                ELSE << usedOffset(parallelCount) >>,
                             labelText |-> EdgeLabelText(edgeId), isBridge |-> undefined,
                             arrowHead |-> undefined,
                             positions |-> IF isLoop
                                           THEN createLoopEdgePoints(t1, sphere1)
                                           ELSE createCurvedEdgePoints(t1, sphere1, sphere2,
                                                    usedOffset(parallelCount)) ]
                t2 == [ t1 EXCEPT !.edges = Append(@, newEdge) ]
                t3 == IF ~isLoop THEN updateParallelEdgesForNodes(t2, sphere1, sphere2) ELSE t2
                t4 == IF t3.directed /\ ~isLoop THEN addArrowhead(t3, Len(t3.edges)) ELSE t3
            IN onGraphChanged(t4)

\* this.edges.filter(edge => edge.sphere1 === node || edge.sphere2 === node)
edgesToDelete(t, node) ==
    KeptIndices([ i \in 1..Len(t.edges) |-> t.edges[i].sphere1 = node \/ t.edges[i].sphere2 = node ], 1)

\* Mutant: the filter looks at sphere1 only.
edgesKept_Sphere1Only(t, node) ==
    KeptIndices([ i \in 1..Len(t.edges) |-> t.edges[i].sphere1 /= node ], 1)

\* Mutant: || for &&.
edgesKept_Or(t, node) ==
    KeptIndices([ i \in 1..Len(t.edges) |-> t.edges[i].sphere1 /= node \/ t.edges[i].sphere2 /= node ], 1)

\* this.edges.filter(edge => edge.sphere1 !== node && edge.sphere2 !== node)
edgesKept(t, node) ==
    KeptIndices([ i \in 1..Len(t.edges) |-> t.edges[i].sphere1 /= node /\ t.edges[i].sphere2 /= node ], 1)

\* this.spheres.filter(s => s !== node)
spheresKept(t, node) == KeptIndices([ i \in 1..Len(t.spheres) |-> i /= node ], 1)

\* The lists filtered down to the indices keptS and keptE, and every reference
\* moved.  Of an edge that leaves the list the line is removed from the
\* scene, its arrowhead is not.
Filtered(t, keptS, keptE) ==
    [ t EXCEPT !.orphanArrowHeads =
                   @ \cup { [ visible |-> t.edges[k].arrowHead[1].visible ] :
                              k \in { i \in 1..Len(t.edges) :
                                         i \notin Range(keptE) /\ t.edges[i].arrowHead /= undefined } },
               !.spheres = [ j \in 1..Len(keptS) |-> t.spheres[keptS[j]] ],
               !.edges = [ j \in 1..Len(keptE) |->
                             [ t.edges[keptE[j]] EXCEPT !.sphere1 = MoveRef(@, keptS),
                                                        !.sphere2 = MoveRef(@, keptS) ] ],
               !.firstSelectedSphere = MoveRef(@, keptS),
               !.selectedEdge = MoveRef(@, keptE) ]

deleteNodeAndEdges(t, node) ==
    LET t1 == [ Filtered(t, spheresKept(t, node), edgesKept(t, node))
                  EXCEPT !.nodeCounter = @ - 1,
                         !.edgeCounter = @ - Len(edgesToDelete(t, node)) ]
    IN onGraphChanged(updateAllEdgeLabels(updateAllNodeLabels(t1)))

\* Mutant: the removal of an edge is not notified.
deleteEdge_NoNotify(t, edge) ==
    LET keptE == KeptIndices([ i \in 1..Len(t.edges) |-> i /= edge ], 1)
        t1 == [ Filtered(t, [ i \in 1..Len(t.spheres) |-> i ], keptE)
                  EXCEPT !.edgeCounter = @ - 1 ]
    IN updateAllEdgeLabels(t1)

deleteEdge(t, edge) ==
    LET keptE == KeptIndices([ i \in 1..Len(t.edges) |-> i /= edge ], 1)
        t1 == [ Filtered(t, [ i \in 1..Len(t.spheres) |-> i ], keptE)
                  EXCEPT !.edgeCounter = @ - 1 ]
    IN onGraphChanged(updateAllEdgeLabels(t1))

\* ---------------------------------------------------------------- selection
deselectEdge(t) == [ t EXCEPT !.selectedEdge = null ]

deselectNode(t) == onNodeDeselected([ t EXCEPT !.firstSelectedSphere = null ])

\* Mutant: the node selection is not cleared.
selectEdge_KeepsNode(t, edge) ==
    LET t1 == IF t.selectedEdge /= null /\ t.selectedEdge /= edge THEN deselectEdge(t) ELSE t
    IN [ t1 EXCEPT !.selectedEdge = edge ]

selectEdge(t, edge) ==
    LET t1 == IF t.selectedEdge /= null /\ t.selectedEdge /= edge THEN deselectEdge(t) ELSE t
        t2 == IF t1.firstSelectedSphere /= null THEN deselectNode(t1) ELSE t1
    IN [ t2 EXCEPT !.selectedEdge = edge ]

\* Mutant: the second click leaves the first node selected.
selectNode_KeepsFirst(t, clickedSphere) ==
    IF t.firstSelectedSphere = null
    THEN LET t1 == [ t EXCEPT !.firstSelectedSphere = clickedSphere ]
             t2 == IF t1.selectedEdge /= null THEN deselectEdge(t1) ELSE t1
         IN onNodeSelected(t2, clickedSphere)
    ELSE createEdge(t, t.firstSelectedSphere, clickedSphere)

selectNode(t, clickedSphere) ==
    IF t.firstSelectedSphere = null
    THEN LET t1 == [ t EXCEPT !.firstSelectedSphere = clickedSphere ]
             t2 == IF t1.selectedEdge /= null THEN deselectEdge(t1) ELSE t1
         IN onNodeSelected(t2, clickedSphere)
    ELSE deselectNode(createEdge(t, t.firstSelectedSphere, clickedSphere))

\* ---------------------------------------------------------------- clear
\* Mutant: the label counters are not reset.
clearGraph_KeepsCounters(t) ==
    onGraphChanged([ t EXCEPT !.edges = << >>, !.spheres = << >>,
                              !.firstSelectedSphere = null, !.selectedEdge = null ])

\* Mutant: the selection is not cleared.
clearGraph_KeepsSelection(t) ==
    onGraphChanged([ t EXCEPT !.edges = << >>, !.spheres = << >>,
                              !.nodeCounter = 0, !.edgeCounter = 0 ])

clearGraph(t) ==
    onGraphChanged([ t EXCEPT !.edges = << >>, !.spheres = << >>,
                              !.nodeCounter = 0, !.edgeCounter = 0,
                              !.firstSelectedSphere = null, !.selectedEdge = null ])

\* ---------------------------------------------------------------- analyses
\* What an analysis command got back from the graph.
Returned(name, value) == [ name |-> name, returned |-> value ]

\* Mutant: an edge is entered in the adjacency list of its sphere1 only.
RECURSIVE NeighboursFrom_OneWay(_, _, _)
NeighboursFrom_OneWay(t, i, k) ==
    IF k > Len(t.edges) THEN << >>
    ELSE LET edge == t.edges[k]
         IN (IF edge.sphere1 = edge.sphere2 THEN << >>
             ELSE IF edge.sphere1 = i THEN << edge.sphere2 >>
             ELSE << >>) \o NeighboursFrom_OneWay(t, i, k + 1)

\* adj[i] as this.edges.forEach fills it from edge k on: a loop is skipped,
\* any other edge pushes each endpoint onto the list of the other.
RECURSIVE NeighboursFrom(_, _, _)
NeighboursFrom(t, i, k) ==
    IF k > Len(t.edges) THEN << >>
    ELSE LET edge == t.edges[k]
         IN (IF edge.sphere1 = edge.sphere2 THEN << >>
             ELSE IF edge.sphere1 = i THEN << edge.sphere2 >>
             ELSE IF edge.sphere2 = i THEN << edge.sphere1 >>
             ELSE << >>) \o NeighboursFrom(t, i, k + 1)

\* The adjacency lists the three analyses build, each for itself, with the same loop.
adj(t) == [ i \in Nodes(t) |-> NeighboursFrom(t, i, 1) ]

\* dfs(i, comp) of getConnectedComponents, on st = [visited, comp]; the for
\* loop over adj[i] from its k-th entry on.
RECURSIVE dfsComponent(_, _, _)
RECURSIVE dfsComponentNeighbors(_, _, _, _)
dfsComponent(a, i, st) ==
    dfsComponentNeighbors(a, i, 1, [ visited |-> st.visited \cup { i }, comp |-> Append(st.comp, i) ])

dfsComponentNeighbors(a, i, k, st) ==
    IF k > Len(a[i]) THEN st
    ELSE LET neighbor == a[i][k]
         IN dfsComponentNeighbors(a, i, k + 1,
                IF neighbor \notin st.visited THEN dfsComponent(a, neighbor, st) ELSE st)

\* for (let i = 0; i < nodeCount; i++) if (!visited[i]) { dfs(i, comp); components.push(comp) }
RECURSIVE componentsFrom(_, _, _, _)
componentsFrom(a, nodeCount, i, visited) ==
    IF i > nodeCount THEN << >>
    ELSE IF i \in visited THEN componentsFrom(a, nodeCount, i + 1, visited)
    ELSE LET st == dfsComponent(a, i, [ visited |-> visited, comp |-> << >> ])
         IN << st.comp >> \o componentsFrom(a, nodeCount, i + 1, st.visited)

getConnectedComponents(t) ==
    LET nodeCount == Len(t.spheres)
    IN IF nodeCount = 0 THEN << >> ELSE componentsFrom(adj(t), nodeCount, 1, {})

palette == << "#e6194b", "#3cb44b", "#ffe119", "#4363d8", "#f58231", "#911eb4", "#46f0f0" >>

\* The index (from 0) of the component that holds node.
ComponentOf(components, node) ==
    (CHOOSE c \in 1..Len(components) : node \in Range(components[c])) - 1

\* Mutant: the highlighting drops the node selection.
highlightComponents_Deselects(t) ==
    LET components == getConnectedComponents(t)
    IN [ t EXCEPT !.analysis = Returned("getConnectedComponents", components),
                  !.firstSelectedSphere = null,
                  !.spheres = [ n \in 1..Len(t.spheres) |->
                      [ t.spheres[n] EXCEPT
                          !.color = palette[(ComponentOf(components, n) % Len(palette)) + 1] ] ] ]

highlightComponents(t) ==
    LET components == getConnectedComponents(t)
    IN [ t EXCEPT !.analysis = Returned("getConnectedComponents", components),
                  !.spheres = [ n \in 1..Len(t.spheres) |->
                      [ t.spheres[n] EXCEPT
                          !.color = palette[(ComponentOf(components, n) % Len(palette)) + 1] ] ] ]

\* Mutant: every pair of nodes counts as joined by a single edge.
edgeCount_One(t, u, v) == 1 + 0 * Len(t.edges)

\* edgeCount.get(key) || 0, key = min(u, v) + '-' + max(u, v): the number of
\* non-loop edges between u and v.
edgeCount(t, u, v) ==
    Len(SelectSeq(t.edges, LAMBDA edge :
            /\ edge.sphere1 /= edge.sphere2
            /\ { edge.sphere1, edge.sphere2 } = { u, v }))

\* Mutant: only the edges drawn from u to v are found.
bridgesBetween_OneWay(t, u, v) ==
    KeptIndices([ k \in 1..Len(t.edges) |->
                    /\ t.edges[k].sphere1 /= t.edges[k].sphere2
                    /\ (t.edges[k].sphere1 = u /\ t.edges[k].sphere2 = v) ], 1)

\* this.edges.forEach(edge => ... bridges.push(edge)): the non-loop edges
\* between u and v, in the order of the edge list.
bridgesBetween(t, u, v) ==
    KeptIndices([ k \in 1..Len(t.edges) |->
                    /\ t.edges[k].sphere1 /= t.edges[k].sphere2
                    /\ \/ (t.edges[k].sphere1 = u /\ t.edges[k].sphere2 = v)
                       \/ (t.edges[k].sphere1 = v /\ t.edges[k].sphere2 = u) ], 1)

Min(x, y) == IF x <= y THEN x ELSE y

\* dfs(u, parent) of detectBridgeEdges, on st = [disc, low, time, bridges];
\* the for loop over adj[u] from its k-th entry on.
RECURSIVE dfsBridge(_, _, _, _, _)
RECURSIVE dfsBridgeNeighbors(_, _, _, _, _, _)
dfsBridge(t, a, u, parent, st) ==
    dfsBridgeNeighbors(t, a, u, parent, 1,
        [ st EXCEPT !.disc[u] = st.time, !.low[u] = st.time, !.time = st.time + 1 ])

dfsBridgeNeighbors(t, a, u, parent, k, st) ==
    IF k > Len(a[u]) THEN st
    ELSE LET v == a[u][k]
             visited == dfsBridge(t, a, v, u, st)
             lowered == [ visited EXCEPT !.low[u] = Min(visited.low[u], visited.low[v]) ]
         IN dfsBridgeNeighbors(t, a, u, parent, k + 1,
                IF st.disc[v] = -1
                THEN IF lowered.low[v] > lowered.disc[u] /\ edgeCount(t, u, v) = 1
                     THEN [ lowered EXCEPT !.bridges = @ \o bridgesBetween(t, u, v) ]
                     ELSE lowered
                ELSE IF v /= parent
                THEN [ st EXCEPT !.low[u] = Min(st.low[u], st.disc[v]) ]
                ELSE st)

\* for (let i = 0; i < n; i++) if (disc[i] === -1) dfs(i, -1)
RECURSIVE bridgesFrom(_, _, _, _)
bridgesFrom(t, a, i, st) ==
    IF i > Len(t.spheres) THEN st
    ELSE bridgesFrom(t, a, i + 1, IF st.disc[i] = -1 THEN dfsBridge(t, a, i, -1, st) ELSE st)

\* The edges returned, as their indices in this.edges.
detectBridgeEdges(t) ==
    bridgesFrom(t, adj(t), 1,
        [ disc |-> [ i \in Nodes(t) |-> -1 ], low |-> [ i \in Nodes(t) |-> -1 ],
          time |-> 0, bridges |-> << >> ]).bridges

highlightBridges(t) ==
    LET bridges == detectBridgeEdges(t)
    IN [ t EXCEPT !.analysis = Returned("detectBridgeEdges", bridges),
                  !.edges = [ k \in 1..Len(t.edges) |->
                      [ t.edges[k] EXCEPT !.isBridge = << k \in Range(bridges) >> ] ] ]

\* Mutant: a neighbour is given the colour of the node it is reached from.
otherColor_Same(c) == c

\* colors[v] = 1 - colors[u]
otherColor(c) == 1 - c

\* The for loop over adj[u] from its k-th entry on, on st = [colors,
\* queue, bipartite]; `break` leaves the loop at the first conflict.
RECURSIVE bfsNeighbors(_, _, _, _)
bfsNeighbors(a, u, k, st) ==
    IF k > Len(a[u]) THEN st
    ELSE LET v == a[u][k]
         IN IF st.colors[v] = -1
            THEN bfsNeighbors(a, u, k + 1,
                     [ st EXCEPT !.colors[v] = otherColor(st.colors[u]),
                                 !.queue = Append(@, v) ])
            ELSE IF st.colors[v] = st.colors[u]
            THEN [ st EXCEPT !.bipartite = FALSE ]
            ELSE bfsNeighbors(a, u, k + 1, st)

\* while (queue.length) { const u = queue.shift(); ...; if (!bipartite) break }
RECURSIVE bfsQueue(_, _)
bfsQueue(a, st) ==
    IF st.queue = << >> THEN st
    ELSE LET u == Head(st.queue)
             after == bfsNeighbors(a, u, 1, [ st EXCEPT !.queue = Tail(@) ])
         IN IF ~after.bipartite THEN after ELSE bfsQueue(a, after)

\* for (let i = 0; i < n; i++) { if (colors[i] === -1) ...; if (!bipartite) break }
RECURSIVE bipartiteFrom(_, _, _, _)
bipartiteFrom(a, n, i, st) ==
    IF i > n THEN st
    ELSE LET after == IF st.colors[i] = -1
                      THEN bfsQueue(a, [ st EXCEPT !.colors[i] = 0, !.queue = << i >> ])
                      ELSE st
         IN IF ~after.bipartite THEN after ELSE bipartiteFrom(a, n, i + 1, after)

\* Mutant: a graph without nodes is reported as not bipartite.
checkBipartite_EmptyFails(t) ==
    LET n == Len(t.spheres)
        st == bipartiteFrom(adj(t), n, 1,
                  [ colors |-> [ i \in Nodes(t) |-> -1 ], queue |-> << >>, bipartite |-> TRUE ])
    IN [ bipartite |-> st.bipartite /\ n > 0, partitions |-> st.colors ]

\* The result { bipartite, partitions }: partitions maps every node to colors[i].
checkBipartite(t) ==
    LET n == Len(t.spheres)
        st == bipartiteFrom(adj(t), n, 1,
                  [ colors |-> [ i \in Nodes(t) |-> -1 ], queue |-> << >>, bipartite |-> TRUE ])
    IN [ bipartite |-> st.bipartite, partitions |-> st.colors ]

applyBipartiteCheck(t) ==
    LET result == checkBipartite(t)
    IN [ t EXCEPT !.analysis = Returned("checkBipartite", result),
                  !.spheres = [ node \in 1..Len(t.spheres) |->
                      [ t.spheres[node] EXCEPT !.color =
                          IF result.bipartite
                          THEN IF result.partitions[node] = 0 THEN "#0077ff" ELSE "#00ff00"
                          ELSE "#ff0000" ] ] ]

\* ---------------------------------------------------------------- chromatic number
\* Graph.applyGraphColoring is called by graph_gui.ts and is not part of
\* graph.ts: the definitions of this section follow the specification (4.4):
\* the minimum number of colours of a proper colouring, found by a
\* feasibility search with backtracking over increasing k; a loop is an
\* automatic failure, for which no number is returned.

\* Mutant: only the edges that start at the node are looked at.
isSafe_Sphere1Only(t, node, c, colors) ==
    \A k \in 1..Len(t.edges) : t.edges[k].sphere1 = node => colors[t.edges[k].sphere2] /= c

\* No neighbour of node has colour c in the partial colouring colors (0: not coloured yet).
isSafe(t, node, c, colors) ==
    \A k \in 1..Len(t.edges) :
        /\ t.edges[k].sphere1 = node => colors[t.edges[k].sphere2] /= c
        /\ t.edges[k].sphere2 = node => colors[t.edges[k].sphere1] /= c

\* The first proper colouring with colours 1..k that extends colors to the
\* nodes from node on, in a sequence that is empty when there is none;
\* tryColors tries the colours from c on for node.
RECURSIVE findColoring(_, _, _, _)
RECURSIVE tryColors(_, _, _, _, _)
findColoring(t, k, node, colors) ==
    IF node > Len(t.spheres) THEN << colors >> ELSE tryColors(t, k, node, 1, colors)

tryColors(t, k, node, c, colors) ==
    IF c > k THEN << >>
    ELSE LET found == IF isSafe(t, node, c, colors)
                      THEN findColoring(t, k, node + 1, [ colors EXCEPT ![node] = c ])
                      ELSE << >>
         IN IF found /= << >> THEN found ELSE tryColors(t, k, node, c + 1, colors)

\* The least k from k on with a proper colouring, and that colouring.
RECURSIVE minColoringFrom(_, _)
minColoringFrom(t, k) ==
    LET found == findColoring(t, k, 1, [ n \in Nodes(t) |-> 0 ])
    IN IF found /= << >> THEN [ chromaticNumber |-> k, colors |-> found[1] ]
       ELSE minColoringFrom(t, k + 1)

\* The number returned, in a sequence that is empty on failure; the nodes
\* take the colour of their class (the specification names no colours: the
\* model takes the palette of highlightComponents).
applyGraphColoring(t) ==
    IF \E k \in 1..Len(t.edges) : t.edges[k].sphere1 = t.edges[k].sphere2
    THEN [ t EXCEPT !.analysis = Returned("applyGraphColoring", << >>) ]
    ELSE LET coloring == minColoringFrom(t, 0)
         IN [ t EXCEPT !.analysis = Returned("applyGraphColoring", << coloring.chromaticNumber >>),
                       !.spheres = [ n \in 1..Len(t.spheres) |->
                           [ t.spheres[n] EXCEPT
                               !.color = palette[((coloring.colors[n] - 1) % Len(palette)) + 1] ] ] ]

\* ---------------------------------------------------------------- event handlers
onKeyDown(t, key) ==
    IF key = "v" /\ ~t.nodeCreationMode
    THEN updatePreviewNodePosition(createPreviewNode([ t EXCEPT !.nodeCreationMode = TRUE ]))
    ELSE IF key = "m"
    THEN IF getSelectedNode(t) /= null THEN [ t EXCEPT !.dragActive = TRUE ] ELSE t
    ELSE IF key = "d"
    THEN LET afterDelete ==
                 IF t.firstSelectedSphere /= null
                 THEN [ onNodeDeselected(deleteNodeAndEdges(t, t.firstSelectedSphere))
                          EXCEPT !.firstSelectedSphere = null ]
                 ELSE IF t.selectedEdge /= null
                 THEN LET s1 == t.edges[t.selectedEdge].sphere1
                          s2 == t.edges[t.selectedEdge].sphere2
                          t1 == deleteEdge(t, t.selectedEdge)
                          t2 == IF s1 /= s2 THEN updateParallelEdgesForNodes(t1, s1, s2) ELSE t1
                      IN [ t2 EXCEPT !.selectedEdge = null ]
                 ELSE t
         IN updateAllEdgeLabels(updateAllNodeLabels(afterDelete))
    ELSE t

\* Mutant: a selected edge stays selected.
onRightClick_KeepsEdge(t) ==
    IF t.nodeCreationMode
    THEN exitNodeCreationMode(t)
    ELSE IF t.firstSelectedSphere /= null
         THEN onNodeDeselected(deselectNode(t))
         ELSE t

onRightClick(t) ==
    IF t.nodeCreationMode
    THEN exitNodeCreationMode(t)
    ELSE LET t1 == IF t.firstSelectedSphere /= null
                   THEN onNodeDeselected(deselectNode(t))
                   ELSE t
         IN IF t1.selectedEdge /= null THEN deselectEdge(t1) ELSE t1

\* Mutant: only the edges leaving the node are redrawn.
updateEdgesForNode_Sphere1Only(t, node) ==
    [ t EXCEPT !.edges = [ k \in 1..Len(t.edges) |->
        IF t.edges[k].sphere1 = node
        THEN [ t.edges[k] EXCEPT !.positions =
                 IF t.edges[k].isLoop
                 THEN createLoopEdgePoints(t, t.edges[k].sphere1)
                 ELSE createCurvedEdgePoints(t, t.edges[k].sphere1, t.edges[k].sphere2,
                          OffsetOrZero(t.edges[k])) ]
        ELSE t.edges[k] ] ]

\* The line of every edge at the node is recomputed from the positions of
\* its ends and its offset.
updateEdgesForNode(t, node) ==
    LET redrawn == [ t EXCEPT !.edges = [ k \in 1..Len(t.edges) |->
            IF t.edges[k].sphere1 = node \/ t.edges[k].sphere2 = node
            THEN [ t.edges[k] EXCEPT !.positions =
                     IF t.edges[k].isLoop
                     THEN createLoopEdgePoints(t, t.edges[k].sphere1)
                     ELSE createCurvedEdgePoints(t, t.edges[k].sphere1, t.edges[k].sphere2,
                              OffsetOrZero(t.edges[k])) ]
            ELSE t.edges[k] ] ]
    IN addArrowheadsFrom(redrawn,
           [ k \in 1..Len(t.edges) |->
               (t.edges[k].sphere1 = node \/ t.edges[k].sphere2 = node) /\ ~t.edges[k].isLoop ], 1)

onMouseMove(t, pointer) ==
    LET t1 == [ t EXCEPT !.mouse = pointer ]
        t2 == IF t1.nodeCreationMode /\ t1.previewSphere THEN updatePreviewNodePosition(t1) ELSE t1
    IN IF t2.dragActive /\ t2.firstSelectedSphere /= null
       THEN LET node == t2.firstSelectedSphere
                newPos == intersectPlane(t2.mouse, t2.spheres[node].position.y)
            IN IF newPos /= << >>
               THEN updateEdgesForNode([ t2 EXCEPT !.spheres[node].position = newPos[1] ], node)
               ELSE t2
       ELSE t2

onMouseUp(t) == IF t.dragActive THEN [ t EXCEPT !.dragActive = FALSE ] ELSE t

\* What the ray of a click hits first: a node, else an edge, else nothing.
Targets(t) ==
    { [ kind |-> "sphere", ref |-> n ] : n \in Nodes(t) }
      \cup { [ kind |-> "edge", ref |-> e ] : e \in Edges(t) }
      \cup { [ kind |-> "none", ref |-> null ] }

onClick(t, target) ==
    IF t.nodeCreationMode /\ t.previewSphere
    THEN exitNodeCreationMode(createNode(t, t.previewPosition))
    ELSE IF target.kind = "sphere"
    THEN selectNode(IF t.selectedEdge /= null THEN deselectEdge(t) ELSE t, target.ref)
    ELSE IF target.kind = "edge"
    THEN IF t.selectedEdge = target.ref THEN deselectEdge(t) ELSE selectEdge(t, target.ref)
    ELSE t

\* ---------------------------------------------------------------- the state machine
\* No analysis command has run yet.
NoAnalysis == [ name |-> "none", returned |-> << >> ]

Init ==
    /\ spheres = << >>
    /\ edges = << >>
    /\ firstSelectedSphere = null
    /\ selectedEdge = null
    /\ nodeCreationMode = FALSE
    /\ previewSphere = FALSE
    /\ nodeCounter = 0
    /\ edgeCounter = 0
    /\ dragActive = FALSE
    /\ eventLog = << >>
    /\ statusBar = [ vertexCount |-> 0, edgeCount |-> 0 ]
    /\ analysis = NoAnalysis
    /\ chromaticNumberInfo = << >>
    /\ mouse = Vector2(0, 0)
    /\ previewPosition = undefined
    /\ directed = FALSE
    /\ orphanArrowHeads = {}
    /\ callbacks = Wired
    /\ nodeFolderDisplay = "none"

\* The model is bounded: a click that would create a node or call createEdge
\* is taken only while the lists and the edge counter are below their bounds.
WithinBounds(t, target, maxNodes, maxEdges) ==
    IF t.nodeCreationMode /\ t.previewSphere
    THEN Len(t.spheres) < maxNodes
    ELSE (target.kind = "sphere" /\ t.firstSelectedSphere /= null)
            => (Len(t.edges) < maxEdges /\ t.edgeCounter < MaxEdgeCounter)

KeyDown(keys) == \E key \in keys : Becomes(onKeyDown(This(Event("keydown", key)), key))

RightClick == Becomes(onRightClick(This(Event("contextmenu", null))))

MouseUp == Becomes(onMouseUp(This(Event("mouseup", null))))

\* The pointer positions a mousemove event may report.
Pointers == { Vector2(0, -1), Vector2(1, -1), Vector2(0, 1) }

MouseMove ==
    \E pointer \in Pointers : Becomes(onMouseMove(This(Event("mousemove", pointer)), pointer))

Click(maxNodes, maxEdges) ==
    \E target \in Targets(This(null)) :
        /\ WithinBounds(This(null), target, maxNodes, maxEdges)
        /\ Becomes(onClick(This(Event("click", target)), target))

\* graph_gui.ts: the Clear Graph button, confirmed; the chromatic number is hidden.
ClearGraphCommand ==
    Becomes([ clearGraph(This(Event("clearGraph", null))) EXCEPT !.chromaticNumberInfo = << >> ])

\* graph_gui.ts: the Directed Graph checkbox (onChange), which toggles the flag.
SetDirectedCommand ==
    LET t == This(Event("setDirected", ~directed))
    IN Becomes(updateDirectedEdges([ t EXCEPT !.directed = ~directed ]))

\* graph_gui.ts: the Label field of the Node Settings folder (onFinishChange).
SetLabelCommand ==
    \E newLabel \in NewLabels :
        LET t == This(Event("setLabel", newLabel))
        IN Becomes(IF getSelectedNode(t) /= null THEN updateNodeLabel(t, newLabel) ELSE t)

\* The events that build and edit the graph: create, connect, select, delete, clear.
Next ==
    \/ KeyDown(StoreKeys)
    \/ RightClick
    \/ Click(MaxNodes, MaxEdges)
    \/ ClearGraphCommand

Spec == Init /\ [][Next]_vars

\* The same with the label command, on graphs of at most MaxEdgesLabel edges.
MaxEdgesLabel == 2

NextLabel ==
    \/ KeyDown(StoreKeys)
    \/ RightClick
    \/ Click(MaxNodes, MaxEdgesLabel)
    \/ ClearGraphCommand
    \/ SetLabelCommand

SpecLabel == Init /\ [][NextLabel]_vars

\* ---------------------------------------------------------------- the analyses
\* The analysis commands run on graphs of at most AnalysisMaxNodes nodes and
\* AnalysisMaxEdges createEdge requests.
AnalysisMaxNodes == 3
AnalysisMaxEdges == 3

\* The object right after construction (Init, as a record).
Constructed ==
    [ spheres |-> << >>, edges |-> << >>,
      firstSelectedSphere |-> null, selectedEdge |-> null,
      nodeCreationMode |-> FALSE, previewSphere |-> FALSE,
      nodeCounter |-> 0, edgeCounter |-> 0,
      dragActive |-> FALSE, eventLog |-> << >>,
      statusBar |-> [ vertexCount |-> 0, edgeCount |-> 0 ],
      analysis |-> NoAnalysis, chromaticNumberInfo |-> << >>,
      mouse |-> Vector2(0, 0), previewPosition |-> undefined,
      directed |-> FALSE, orphanArrowHeads |-> {},
      callbacks |-> Wired, nodeFolderDisplay |-> "none" ]

\* n nodes created one after the other.
RECURSIVE WithNodes(_, _)
WithNodes(t, n) ==
    IF n = 0 THEN t ELSE createNode(WithNodes(t, n - 1), rayAt(t.mouse, previewDistance))

\* createEdge requested for every pair of the sequence, in order.
RECURSIVE WithEdges(_, _)
WithEdges(t, pairs) ==
    IF pairs = << >> THEN t
    ELSE LET last == pairs[Len(pairs)]
         IN createEdge(WithEdges(t, SubSeq(pairs, 1, Len(pairs) - 1)), last[1], last[2])

\* The sequences of at most AnalysisMaxEdges pairs of nodes among n.
EdgeRequests(n) == UNION { [ 1..m -> (1..n) \X (1..n) ] : m \in 0..AnalysisMaxEdges }

Is(t) ==
    /\ spheres = t.spheres
    /\ edges = t.edges
    /\ firstSelectedSphere = t.firstSelectedSphere
    /\ selectedEdge = t.selectedEdge
    /\ nodeCreationMode = t.nodeCreationMode
    /\ previewSphere = t.previewSphere
    /\ nodeCounter = t.nodeCounter
    /\ edgeCounter = t.edgeCounter
    /\ dragActive = t.dragActive
    /\ eventLog = t.eventLog
    /\ statusBar = t.statusBar
    /\ analysis = t.analysis
    /\ chromaticNumberInfo = t.chromaticNumberInfo
    /\ mouse = t.mouse
    /\ previewPosition = t.previewPosition
    /\ directed = t.directed
    /\ orphanArrowHeads = t.orphanArrowHeads
    /\ callbacks = t.callbacks
    /\ nodeFolderDisplay = t.nodeFolderDisplay

\* A graph the user has built: nodes created, then edges requested between them.
InitAnalysis ==
    \E n \in 0..AnalysisMaxNodes :
        \E pairs \in EdgeRequests(n) :
            Is([ WithEdges(WithNodes(Constructed, n), pairs) EXCEPT !.eventLog = << >> ])

\* graph_gui.ts: the View Graph Components button.
ViewGraphComponents == Becomes(highlightComponents(This(Event("viewGraphComponents", null))))

\* graph_gui.ts: the View Bridge Edges button.
ViewBridgeEdges == Becomes(highlightBridges(This(Event("viewBridgeEdges", null))))

\* graph_gui.ts: the Check Bipartite button; the alert shows the boolean returned.
CheckBipartite == Becomes(applyBipartiteCheck(This(Event("checkBipartite", null))))

\* graph_gui.ts: the Compute Chromatic Number button shows the number returned.
ComputeChromaticNumber ==
    LET t == applyGraphColoring(This(Event("computeChromaticNumber", null)))
    IN Becomes([ t EXCEPT !.chromaticNumberInfo = << t.analysis.returned >> ])

NextAnalysis ==
    \/ ViewGraphComponents
    \/ ViewBridgeEdges
    \/ CheckBipartite
    \/ ComputeChromaticNumber
    \/ ClearGraphCommand

SpecAnalysis == InitAnalysis /\ [][NextAnalysis]_vars

\* The events that build and edit the graph together with the three analyses
\* of graph.ts, on graphs of at most MaxEdgesLabel edges.
NextEditAnalyse ==
    \/ KeyDown(StoreKeys)
    \/ RightClick
    \/ Click(MaxNodes, MaxEdgesLabel)
    \/ ClearGraphCommand
    \/ ViewGraphComponents
    \/ ViewBridgeEdges
    \/ CheckBipartite

SpecEditAnalyse == Init /\ [][NextEditAnalyse]_vars

\* The events that build and edit the graph together with the drag key and
\* the release of the pointer, on graphs of at most MaxEdgesLabel edges.
NextDrag ==
    \/ KeyDown(Keys)
    \/ RightClick
    \/ Click(MaxNodes, MaxEdgesLabel)
    \/ ClearGraphCommand
    \/ MouseUp

SpecDrag == Init /\ [][NextDrag]_vars

\* The same with the moves of the pointer.
NextMove ==
    \/ KeyDown(Keys)
    \/ RightClick
    \/ Click(MaxNodes, MaxEdgesLabel)
    \/ ClearGraphCommand
    \/ MouseUp
    \/ MouseMove

SpecMove == Init /\ [][NextMove]_vars

\* The events that build the graph and select in it, without the delete key
\* and without the Clear Graph command: a history without deletions.
NextCreate ==
    \/ KeyDown({ "v" })
    \/ RightClick
    \/ Click(MaxNodes, MaxEdges)

SpecCreate == Init /\ [][NextCreate]_vars

\* The events that build and edit the graph together with the Directed
\* Graph checkbox.
NextDirected ==
    \/ KeyDown(StoreKeys)
    \/ RightClick
    \/ Click(MaxNodes, MaxEdges)
    \/ ClearGraphCommand
    \/ SetDirectedCommand

SpecDirected == Init /\ [][NextDirected]_vars

\* Creating, connecting and dragging with the Directed Graph
\* checkbox, on graphs of at most MaxEdgesLabel edges.
NextDirectedMove ==
    \/ KeyDown({ "v", "m" })
    \/ Click(MaxNodes, MaxEdgesLabel)
    \/ MouseUp
    \/ MouseMove
    \/ SetDirectedCommand

SpecDirectedMove == Init /\ [][NextDirectedMove]_vars

\* ---------------------------------------------------------------- properties
\* The event last handled (the log is empty only before the first event).
LastEventIs(name) == eventLog /= << >> /\ eventLog[1].name = name
LastKeyWas(key) == LastEventIs("keydown") /\ eventLog[1].input = key
LastClickOnSphere == LastEventIs("click") /\ eventLog[1].input.kind = "sphere"
LastClickOnEdge == LastEventIs("click") /\ eventLog[1].input.kind = "edge"
Fired(name) == \E i \in 2..Len(eventLog) : eventLog[i].name = name

\* C1: both endpoints of every edge of the edge list are nodes of the node
\* list, in every reachable state; a deleted node leaves no edge referring to it.
C1_EndpointsPresent ==
    \A i \in 1..Len(edges) :
        /\ edges[i].sphere1 \in 1..Len(spheres)
        /\ edges[i].sphere2 \in 1..Len(spheres)

\* A node with incident edges was just deleted and an edge is left.
C1_Witness ==
    /\ LastKeyWas("d")
    /\ eventLog[1].selectedNode /= null
    /\ Len(edges) < eventLog[1].edgeCount
    /\ Len(edges) >= 1

\* C2: every node has at most one loop edge.
C2_AtMostOneLoop ==
    \A n \in 1..Len(spheres) :
        Cardinality({ i \in 1..Len(edges) :
                        edges[i].isLoop /\ edges[i].sphere1 = n /\ edges[i].sphere2 = n }) <= 1

\* The selected node was clicked again while it already had a loop.
C2_Witness ==
    /\ LastClickOnSphere
    /\ eventLog[1].selectedNode = eventLog[1].input.ref
    /\ Len(edges) = eventLog[1].edgeCount
    /\ \E i \in 1..Len(edges) : edges[i].isLoop /\ edges[i].sphere1 = eventLog[1].input.ref

\* C3: a createEdge(n, n) request on a node that already has a loop changes
\* neither the edge list nor the edge label counter and fires no
\* graph-changed notification.
C3_RejectedLoopIsNoOp ==
    [][ ( /\ eventLog' /= << >>
          /\ eventLog'[1].name = "click"
          /\ eventLog'[1].input.kind = "sphere"
          /\ ~(nodeCreationMode /\ previewSphere)
          /\ firstSelectedSphere /= null
          /\ firstSelectedSphere = eventLog'[1].input.ref
          /\ \E i \in 1..Len(edges) : edges[i].isLoop /\ edges[i].sphere1 = firstSelectedSphere )
        => ( /\ edges' = edges
             /\ edgeCounter' = edgeCounter
             /\ \A i \in 2..Len(eventLog') : eventLog'[i].name /= "onGraphChanged" ) ]_vars

\* C4: a node and an edge are never selected at the same time.
C4_SelectionExclusive == ~(firstSelectedSphere /= null /\ selectedEdge /= null)

\* An edge was clicked while a node was selected, and the edge is now selected.
C4_Witness ==
    /\ LastClickOnEdge
    /\ eventLog[1].selectedNode /= null
    /\ selectedEdge = eventLog[1].input.ref

\* C5: when no label was edited by hand, the node at position i of the node
\* list carries the label "v" + i.
C5_NodeLabelsByPosition ==
    \A i \in 1..Len(spheres) : spheres[i].labelText = NodeLabelText(i)

\* A node was just created next to nodes that are already connected.
C5_Witness ==
    /\ LastEventIs("click")
    /\ Len(spheres) = eventLog[1].nodeCount + 1
    /\ Len(spheres) >= 2
    /\ Len(edges) >= 1

\* C6: the edge at position i of the edge list carries the label "e" + i.
C6_EdgeLabelsByPosition ==
    \A i \in 1..Len(edges) : edges[i].labelText = EdgeLabelText(i)

\* A step that handles the delete key with a node or an edge selected.
DeleteStep ==
    /\ eventLog' /= << >>
    /\ eventLog'[1].name = "keydown"
    /\ eventLog'[1].input = "d"
    /\ (firstSelectedSphere /= null \/ selectedEdge /= null)

DeleteNodeStep(n) == DeleteStep /\ firstSelectedSphere = n

DeleteEdgeStep(k) == DeleteStep /\ firstSelectedSphere = null /\ selectedEdge = k

\* The reference to node x once node n, an earlier or later node, left the list.
Down(x, n) == IF x > n THEN x - 1 ELSE x

\* The edges of the list that do not touch node n, in the order of the list.
NotIncident(n) == SelectSeq(edges, LAMBDA e : e.sphere1 /= n /\ e.sphere2 /= n)

\* The edges of the list but the one at index k, in the order of the list.
AllBut(k) == [ j \in 1..(Len(edges) - 1) |-> IF j < k THEN edges[j] ELSE edges[j + 1] ]

\* edge a of the new list is edge b of the old one, node n (null: none) having left.
SameEdge(a, b, n) ==
    /\ a.isLoop = b.isLoop
    /\ a.sphere1 = (IF n = null THEN b.sphere1 ELSE Down(b.sphere1, n))
    /\ a.sphere2 = (IF n = null THEN b.sphere2 ELSE Down(b.sphere2, n))

LabelsExact(sph, edg) ==
    /\ \A i \in 1..Len(sph) : sph[i].labelText = NodeLabelText(i)
    /\ \A i \in 1..Len(edg) : edg[i].labelText = EdgeLabelText(i)

Family(a, b) ==
    { i \in 1..Len(edges) :
        /\ edges[i].sphere1 /= edges[i].sphere2
        /\ { edges[i].sphere1, edges[i].sphere2 } = { a, b } }

FamilyOffsets(a, b) == { edges[i].parallelOffset[1] : i \in Family(a, b) }

\* C9: the offsets of the non-loop edges between two nodes are symmetric
\* around zero: with an offset x the family holds the offset -x.
C9_OffsetsSymmetric ==
    \A a, b \in 1..Len(spheres) :
        a < b => \A x \in FamilyOffsets(a, b) : (0 - x) \in FamilyOffsets(a, b)

\* C10: the non-loop edges between two nodes have pairwise distinct offsets,
\* and two or more of them have consecutive multiples of baseOffset.
C10_OffsetsDistinctConsecutive ==
    \A a, b \in 1..Len(spheres) :
        a < b =>
            LET n == Cardinality(Family(a, b))
                offsets == FamilyOffsets(a, b)
            IN /\ Cardinality(offsets) = n
               /\ n >= 2 => \E lo \in offsets :
                               offsets = { lo + k * baseOffset : k \in 0..(n - 1) }

\* One edge of a family of three was just deleted: two siblings are left.
C10_Witness ==
    /\ LastKeyWas("d")
    /\ eventLog[1].selectedEdge /= null
    /\ Len(edges) = eventLog[1].edgeCount - 1
    /\ \E a, b \in 1..Len(spheres) : a < b /\ Cardinality(Family(a, b)) = 2

\* C11: a non-loop edge that is the only edge between its two endpoints has
\* offset 0, in every reachable state; the last survivor of a parallel family
\* is re-centered to 0.
C11_SingleEdgeStraight ==
    \A a, b \in 1..Len(spheres) :
        (a < b /\ Cardinality(Family(a, b)) = 1) => FamilyOffsets(a, b) = { 0 }

\* The edges of the edge list that have node n as at least one endpoint.
IncidentEdges(n) == { k \in 1..Len(edges) : edges[k].sphere1 = n \/ edges[k].sphere2 = n }

\* C12: getDegree(n) is the number of edges of the edge list with n as at
\* least one endpoint, a parallel edge counted once and a loop once; so is
\* the degree shown when a node is selected.
C12_DegreeCountsIncidentEdges ==
    /\ \A n \in 1..Len(spheres) : getDegree(This(null), n) = Cardinality(IncidentEdges(n))
    /\ \A i \in 2..Len(eventLog) :
          eventLog[i].name = "onNodeSelected" =>
              eventLog[i].arg.deg = Cardinality(IncidentEdges(eventLog[i].arg.node))

\* A node with a loop and two parallel edges was just selected: degree 3 is shown.
C12_Witness ==
    /\ LastClickOnSphere
    /\ \E i \in 2..Len(eventLog) :
          /\ eventLog[i].name = "onNodeSelected"
          /\ eventLog[i].arg.deg = 3
          /\ \E k \in IncidentEdges(eventLog[i].arg.node) : edges[k].isLoop
          /\ Cardinality({ k \in IncidentEdges(eventLog[i].arg.node) : ~edges[k].isLoop }) = 2

\* C13: right after clearGraph the node list and the edge list are empty,
\* nothing is selected and both label counters are 0; and the node created
\* next, into the empty node list, is labelled v1, the edge created next,
\* into the empty edge list, e1.
C13_ClearResets ==
    [][ /\ (eventLog' /= << >> /\ eventLog'[1].name = "clearGraph") =>
              /\ spheres' = << >>
              /\ edges' = << >>
              /\ firstSelectedSphere' = null
              /\ selectedEdge' = null
              /\ nodeCounter' = 0
              /\ edgeCounter' = 0
        /\ (spheres = << >> /\ Len(spheres') = 1) => spheres'[1].labelText = "v1"
        /\ (edges = << >> /\ Len(edges') = 1) => edges'[1].labelText = "e1" ]_vars

\* The graph was just cleared while it held two nodes, an edge and a selected node.
C13_Witness ==
    /\ LastEventIs("clearGraph")
    /\ eventLog[1].nodeCount >= 2
    /\ eventLog[1].edgeCount >= 1
    /\ eventLog[1].selectedNode /= null
    /\ spheres = << >>

\* The nodes one non-loop edge away from a node of S.
Neighbours(S) ==
    { n \in 1..Len(spheres) :
        \E k \in 1..Len(edges) :
            /\ edges[k].sphere1 /= edges[k].sphere2
            /\ \/ (edges[k].sphere1 \in S /\ edges[k].sphere2 = n)
               \/ (edges[k].sphere2 \in S /\ edges[k].sphere1 = n) }

\* The nodes a path of non-loop edges joins to a node of S.
RECURSIVE Reachable(_)
Reachable(S) == IF Neighbours(S) \subseteq S THEN S ELSE Reachable(S \cup Neighbours(S))

ConnectivityClasses == { Reachable({ n }) : n \in 1..Len(spheres) }

\* C14: what getConnectedComponents returns is a partition of the node list,
\* every node in exactly one component, whose blocks are the connectivity
\* classes of the graph with its loops ignored.
C14_ComponentsPartition ==
    LastEventIs("viewGraphComponents") =>
        LET components == analysis.returned
        IN /\ analysis.name = "getConnectedComponents"
           /\ \A n \in 1..Len(spheres) :
                 Cardinality({ << c, j >> \in (1..Len(components)) \X (1..Len(spheres)) :
                                  j <= Len(components[c]) /\ components[c][j] = n }) = 1
           /\ \A c \in 1..Len(components) : Range(components[c]) \subseteq 1..Len(spheres)
           /\ { Range(components[c]) : c \in 1..Len(components) } = ConnectivityClasses

\* The components of a graph of three nodes were computed: two nodes joined
\* by an edge, the third with nothing but a loop.
C14_Witness ==
    /\ LastEventIs("viewGraphComponents")
    /\ Len(spheres) = 3
    /\ Len(analysis.returned) = 2
    /\ \E k \in 1..Len(edges) :
          /\ edges[k].isLoop
          /\ \E c \in 1..Len(analysis.returned) : analysis.returned[c] = << edges[k].sphere1 >>

\* The nodes one non-loop edge other than edge x away from a node of S.
NeighboursWithout(S, x) ==
    { n \in 1..Len(spheres) :
        \E k \in (1..Len(edges)) \ { x } :
            /\ edges[k].sphere1 /= edges[k].sphere2
            /\ \/ (edges[k].sphere1 \in S /\ edges[k].sphere2 = n)
               \/ (edges[k].sphere2 \in S /\ edges[k].sphere1 = n) }

RECURSIVE ReachableWithout(_, _)
ReachableWithout(S, x) ==
    IF NeighboursWithout(S, x) \subseteq S THEN S
    ELSE ReachableWithout(S \cup NeighboursWithout(S, x), x)

\* The edges whose removal increases the number of connected components.
Bridges ==
    { x \in 1..Len(edges) :
        Cardinality({ ReachableWithout({ n }, x) : n \in 1..Len(spheres) })
            > Cardinality(ConnectivityClasses) }

\* C15: no edge detectBridgeEdges returns is a loop or has a parallel
\* sibling between the same two nodes.
C15_NoParallelBridge ==
    LastEventIs("viewBridgeEdges") =>
        \A j \in 1..Len(analysis.returned) :
            LET x == analysis.returned[j]
            IN /\ x \in 1..Len(edges)
               /\ edges[x].sphere1 /= edges[x].sphere2
               /\ Family(edges[x].sphere1, edges[x].sphere2) = { x }

\* The bridges of a graph with two parallel edges were computed, and a bridge was found.
C15_Witness ==
    /\ LastEventIs("viewBridgeEdges")
    /\ \E a, b \in 1..Len(spheres) : Cardinality(Family(a, b)) = 2
    /\ Len(analysis.returned) = 1

\* C16: detectBridgeEdges returns, each edge once, exactly the edges whose
\* removal increases the number of connected components.
C16_BridgesExact ==
    LastEventIs("viewBridgeEdges") =>
        /\ analysis.name = "detectBridgeEdges"
        /\ Range(analysis.returned) = Bridges
        /\ Cardinality(Range(analysis.returned)) = Len(analysis.returned)

\* The bridges of a path of three nodes were computed: both edges are returned.
C16_Witness ==
    /\ LastEventIs("viewBridgeEdges")
    /\ Len(spheres) = 3
    /\ Len(edges) = 2
    /\ Len(analysis.returned) = 2

\* C17: when the bipartite check reports success, the colouring it returns
\* maps every node to 0 or 1 and no edge joins two nodes of the same colour.
C17_SuccessIsProperColouring ==
    (LastEventIs("checkBipartite") /\ analysis.returned.bipartite) =>
        /\ \A n \in 1..Len(spheres) : analysis.returned.partitions[n] \in { 0, 1 }
        /\ \A k \in 1..Len(edges) :
              analysis.returned.partitions[edges[k].sphere1]
                  /= analysis.returned.partitions[edges[k].sphere2]

\* C18: when a node of the graph has a loop, the bipartite check reports failure.
C18_LoopForcesFailure ==
    (LastEventIs("checkBipartite") /\ \E k \in 1..Len(edges) : edges[k].isLoop) =>
        ~analysis.returned.bipartite

\* The colourings of all nodes with colours 1..k in which no edge joins two
\* nodes of the same colour.
ProperColourings(k) ==
    { f \in [ 1..Len(spheres) -> 1..k ] :
        \A e \in 1..Len(edges) : f[edges[e].sphere1] /= f[edges[e].sphere2] }

\* C19: the Compute Chromatic Number command gets back the minimum number
\* of colours with which all nodes can be coloured so that no edge joins two
\* nodes of the same colour, whenever there is such a number, and 0 for the
\* empty graph.
C19_ChromaticNumberMinimal ==
    LastEventIs("computeChromaticNumber") =>
        /\ analysis.name = "applyGraphColoring"
        /\ \A k \in 0..Len(spheres) :
              (ProperColourings(k) /= {} /\ \A j \in 0..(k - 1) : ProperColourings(j) = {})
                  => (analysis.returned = << k >> /\ chromaticNumberInfo = << << k >> >>)
        /\ spheres = << >> => analysis.returned = << 0 >>

\* The chromatic number of a triangle was computed: 3.
C19_Witness ==
    /\ LastEventIs("computeChromaticNumber")
    /\ Len(spheres) = 3
    /\ \A a, b \in 1..3 : a < b => Cardinality(Family(a, b)) = 1
    /\ analysis.returned = << 3 >>

\* C20: on the graph without nodes getConnectedComponents returns the empty
\* partition, detectBridgeEdges no edge, and checkBipartite bipartite = true.
C20_EmptyGraphTrivial ==
    spheres = << >> =>
        /\ LastEventIs("viewGraphComponents") => analysis = Returned("getConnectedComponents", << >>)
        /\ LastEventIs("viewBridgeEdges") => analysis = Returned("detectBridgeEdges", << >>)
        /\ LastEventIs("checkBipartite") =>
              (analysis.name = "checkBipartite" /\ analysis.returned.bipartite)

\* The bipartite check ran on the graph without nodes.
C20_Witness ==
    /\ LastEventIs("checkBipartite")
    /\ spheres = << >>
    /\ edges = << >>
    /\ analysis.returned.bipartite

\* A step that runs one of the three analyses of graph.ts.
AnalysisStep ==
    /\ eventLog' /= << >>
    /\ eventLog'[1].name \in { "viewGraphComponents", "viewBridgeEdges", "checkBipartite" }

\* C21: an analysis leaves the node list, the edge list, the endpoints and
\* the offset of every edge, all labels, both label counters and the
\* selection as they were.
C21_AnalysisKeepsStore ==
    [][ AnalysisStep =>
          /\ Len(spheres') = Len(spheres)
          /\ \A n \in 1..Len(spheres) : spheres'[n].labelText = spheres[n].labelText
          /\ Len(edges') = Len(edges)
          /\ \A k \in 1..Len(edges) :
                /\ edges'[k].sphere1 = edges[k].sphere1
                /\ edges'[k].sphere2 = edges[k].sphere2
                /\ edges'[k].isLoop = edges[k].isLoop
                /\ edges'[k].parallelOffset = edges[k].parallelOffset
                /\ edges'[k].labelText = edges[k].labelText
          /\ nodeCounter' = nodeCounter
          /\ edgeCounter' = edgeCounter
          /\ firstSelectedSphere' = firstSelectedSphere
          /\ selectedEdge' = selectedEdge ]_vars

\* The components of a graph with two parallel edges were computed while a node was selected.
C21_Witness ==
    /\ LastEventIs("viewGraphComponents")
    /\ firstSelectedSphere /= null
    /\ eventLog[1].selectedNode = firstSelectedSphere
    /\ \E a, b \in 1..Len(spheres) : Cardinality(Family(a, b)) = 2

\* C22: the delete key pressed while neither a node nor an edge is selected
\* changes nothing: the node list and the edge list with every offset and
\* every label, hand-set labels included, and the selection stay as they were.
C22_DeleteNothingIsNoOp ==
    [][ ( /\ eventLog' /= << >>
          /\ eventLog'[1].name = "keydown"
          /\ eventLog'[1].input = "d"
          /\ firstSelectedSphere = null
          /\ selectedEdge = null )
        => ( /\ spheres' = spheres
             /\ edges' = edges
             /\ firstSelectedSphere' = null
             /\ selectedEdge' = null ) ]_vars

\* C23: at every event boundary the counts the subscriber of the
\* graph-changed notification last read are the node count and the edge
\* count, and an event that changed either count fired the notification.
C23_CountsNotified ==
    /\ statusBar.vertexCount = Len(spheres)
    /\ statusBar.edgeCount = Len(edges)
    /\ ( /\ eventLog /= << >>
         /\ (eventLog[1].nodeCount /= Len(spheres) \/ eventLog[1].edgeCount /= Len(edges)) )
       => Fired("onGraphChanged")

\* The selected edge was just deleted, another edge is left, and the notification fired.
C23_Witness ==
    /\ LastKeyWas("d")
    /\ eventLog[1].selectedEdge /= null
    /\ Len(edges) = eventLog[1].edgeCount - 1
    /\ Len(edges) >= 1
    /\ Fired("onGraphChanged")
    /\ statusBar.edgeCount = Len(edges)

\* C24: dragging requires a node selection: whenever dragActive is true a
\* node is selected, whatever event (delete key, right-click, second click,
\* clear graph) was handled since the drag key was pressed.
C24_DragRequiresSelection ==
    dragActive => firstSelectedSphere /= null

\* C25: the controller is in one mode at a time: nodeCreationMode is never
\* true together with an active drag, a selected node or a selected edge.
C25_SingleMode ==
    nodeCreationMode =>
        /\ ~dragActive
        /\ firstSelectedSphere = null
        /\ selectedEdge = null

\* The colourings of all nodes with the colours 0 and 1 in which no edge
\* other than a loop joins two nodes of the same colour.
TwoColouringsIgnoringLoops ==
    { f \in [ 1..Len(spheres) -> { 0, 1 } ] :
        \A e \in 1..Len(edges) :
            edges[e].sphere1 /= edges[e].sphere2 => f[edges[e].sphere1] /= f[edges[e].sphere2] }

\* C26: checkBipartite reports true exactly when the graph with its loops
\* ignored has a proper colouring with two colours; a triangle is reported
\* false, and a single edge between two nodes true with the two nodes in
\* different classes.
C26_BipartiteExact ==
    LastEventIs("checkBipartite") =>
        /\ analysis.returned.bipartite <=> (TwoColouringsIgnoringLoops /= {})
        /\ ( /\ Len(spheres) = 3
             /\ \A a, b \in 1..3 : a < b => Family(a, b) /= {} )
           => ~analysis.returned.bipartite
        /\ ( /\ Len(spheres) = 2
             /\ Len(edges) = 1
             /\ Family(1, 2) /= {} )
           => ( /\ analysis.returned.bipartite
                /\ analysis.returned.partitions[1] /= analysis.returned.partitions[2] )

\* A triangle was checked and reported not bipartite.
C26_Witness ==
    /\ LastEventIs("checkBipartite")
    /\ Len(spheres) = 3
    /\ \A a, b \in 1..3 : a < b => Family(a, b) /= {}
    /\ ~analysis.returned.bipartite
    /\ TwoColouringsIgnoringLoops = {}

\* The step handles a click on a node outside creation mode while a node is selected.
SecondClickStep ==
    /\ eventLog' /= << >>
    /\ eventLog'[1].name = "click"
    /\ eventLog'[1].input.kind = "sphere"
    /\ ~nodeCreationMode
    /\ firstSelectedSphere /= null

\* The edge list after the step is the one before it with one edge from
\* node a to node b appended.
AppendedEdge(a, b) ==
    /\ Len(edges') = Len(edges) + 1
    /\ \A k \in 1..Len(edges) : SameEdge(edges'[k], edges[k], null)
    /\ edges'[Len(edges')].sphere1 = a
    /\ edges'[Len(edges')].sphere2 = b
    /\ edges'[Len(edges')].isLoop = (a = b)

\* C27: outside creation mode a click on a node while node F is selected
\* ends with no node selected; on another node it appends exactly one edge
\* from F to the clicked node; on F itself it appends a loop on F exactly
\* when F has no loop yet, and otherwise leaves the edge list as it was.
C27_SecondClickConnects ==
    [][ SecondClickStep =>
          LET F == firstSelectedSphere
              clicked == eventLog'[1].input.ref
              hasLoop == \E k \in 1..Len(edges) :
                             edges[k].sphere1 = F /\ edges[k].sphere2 = F
          IN /\ firstSelectedSphere' = null
             /\ spheres' = spheres
             /\ clicked /= F => AppendedEdge(F, clicked)
             /\ (clicked = F /\ ~hasLoop) => AppendedEdge(F, F)
             /\ (clicked = F /\ hasLoop) => edges' = edges ]_vars

\* A second click on the selected node, which has a loop already, added
\* nothing and left no node selected.
C27_Witness ==
    /\ LastClickOnSphere
    /\ eventLog[1].selectedNode /= null
    /\ eventLog[1].input.ref = eventLog[1].selectedNode
    /\ firstSelectedSphere = null
    /\ Len(edges) = eventLog[1].edgeCount
    /\ \E k \in 1..Len(edges) :
          edges[k].sphere1 = eventLog[1].input.ref /\ edges[k].sphere2 = eventLog[1].input.ref

\* C28: in creation mode a click appends exactly one node, leaves creation
\* mode and changes neither the edges nor the selection; a right-click
\* leaves creation mode and changes neither list nor the selection; the
\* creation key pressed in creation mode changes nothing; and the preview
\* node exists exactly while creation mode is on.
C28_CreationMode ==
    [][ /\ (previewSphere <=> nodeCreationMode) /\ (previewSphere' <=> nodeCreationMode')
        /\ (nodeCreationMode /\ eventLog' /= << >> /\ eventLog'[1].name = "click") =>
              /\ Len(spheres') = Len(spheres) + 1
              /\ \A n \in 1..Len(spheres) : spheres'[n] = spheres[n]
              /\ ~nodeCreationMode'
              /\ edges' = edges
              /\ firstSelectedSphere' = firstSelectedSphere
              /\ selectedEdge' = selectedEdge
        /\ (nodeCreationMode /\ eventLog' /= << >> /\ eventLog'[1].name = "contextmenu") =>
              /\ ~nodeCreationMode'
              /\ spheres' = spheres
              /\ edges' = edges
              /\ firstSelectedSphere' = firstSelectedSphere
              /\ selectedEdge' = selectedEdge
        /\ ( /\ nodeCreationMode
             /\ eventLog' /= << >>
             /\ eventLog'[1].name = "keydown"
             /\ eventLog'[1].input = "v" ) =>
              /\ nodeCreationMode' /\ previewSphere'
              /\ spheres' = spheres
              /\ edges' = edges
              /\ firstSelectedSphere' = firstSelectedSphere
              /\ selectedEdge' = selectedEdge
              /\ nodeCounter' = nodeCounter
              /\ edgeCounter' = edgeCounter
              /\ dragActive' = dragActive
              /\ statusBar' = statusBar ]_vars

\* A click in creation mode added a second node while the first stayed
\* selected, and the preview node is gone.
C28_Witness ==
    /\ LastEventIs("click")
    /\ Len(spheres) = eventLog[1].nodeCount + 1
    /\ Len(spheres) = 2
    /\ eventLog[1].selectedNode /= null
    /\ firstSelectedSphere = eventLog[1].selectedNode
    /\ ~nodeCreationMode
    /\ ~previewSphere

\* The step handles a right-click outside creation mode.
RightClickStep ==
    /\ eventLog' /= << >>
    /\ eventLog'[1].name = "contextmenu"
    /\ ~nodeCreationMode

\* C29: a right-click outside creation mode leaves no node and no edge
\* selected and changes neither the node list nor the edge list; a second
\* right-click in the resulting state changes nothing more.
C29_RightClickDeselects ==
    [][ RightClickStep =>
          /\ firstSelectedSphere' = null
          /\ selectedEdge' = null
          /\ spheres' = spheres
          /\ edges' = edges
          /\ ~nodeCreationMode'
          /\ LET again == onRightClick([ This(Event("contextmenu", null))
                                           EXCEPT !.firstSelectedSphere = firstSelectedSphere',
                                                  !.selectedEdge = selectedEdge',
                                                  !.spheres = spheres',
                                                  !.edges = edges',
                                                  !.nodeCreationMode = nodeCreationMode',
                                                  !.previewSphere = previewSphere',
                                                  !.nodeCounter = nodeCounter',
                                                  !.edgeCounter = edgeCounter',
                                                  !.dragActive = dragActive',
                                                  !.statusBar = statusBar' ])
             IN /\ again.firstSelectedSphere = firstSelectedSphere'
                /\ again.selectedEdge = selectedEdge'
                /\ again.spheres = spheres'
                /\ again.edges = edges'
                /\ again.nodeCreationMode = nodeCreationMode'
                /\ again.previewSphere = previewSphere'
                /\ again.nodeCounter = nodeCounter'
                /\ again.edgeCounter = edgeCounter'
                /\ again.dragActive = dragActive'
                /\ again.statusBar = statusBar' ]_vars

\* A right-click deselected the selected edge of a graph with two edges.
C29_Witness ==
    /\ LastEventIs("contextmenu")
    /\ eventLog[1].selectedEdge /= null
    /\ selectedEdge = null
    /\ firstSelectedSphere = null
    /\ ~nodeCreationMode
    /\ Len(edges) = 2

\* What the line of edge e is computed from when it follows the positions
\* of its ends in the node list sph.
LineFollowing(sph, e) ==
    [ start |-> sph[e.sphere1].position, end |-> sph[e.sphere2].position,
      offset |-> IF e.isLoop THEN undefined ELSE << OffsetOrZero(e) >> ]

\* C30: while dragging, a move of the pointer changes nothing but the
\* position of the selected node, whose height stays, and the lines of the
\* edges at that node, which follow it: no node or edge is added or
\* removed, and no offset, label or selection changes; a release of the
\* pointer ends dragging and leaves the selection as it was.
C30_DragMovesSelectedNode ==
    [][ /\ (dragActive /\ eventLog' /= << >> /\ eventLog'[1].name = "mousemove") =>
              /\ Len(spheres') = Len(spheres)
              /\ \A n \in 1..Len(spheres) :
                    /\ spheres'[n].labelText = spheres[n].labelText
                    /\ spheres'[n].color = spheres[n].color
                    /\ spheres'[n].position.y = spheres[n].position.y
                    /\ n /= firstSelectedSphere => spheres'[n].position = spheres[n].position
              /\ Len(edges') = Len(edges)
              /\ \A k \in 1..Len(edges) :
                    /\ SameEdge(edges'[k], edges[k], null)
                    /\ edges'[k].parallelOffset = edges[k].parallelOffset
                    /\ edges'[k].labelText = edges[k].labelText
                    /\ IF firstSelectedSphere \in { edges[k].sphere1, edges[k].sphere2 }
                       THEN edges'[k].positions = LineFollowing(spheres', edges'[k])
                       ELSE edges'[k].positions = edges[k].positions
              /\ firstSelectedSphere' = firstSelectedSphere
              /\ selectedEdge' = selectedEdge
              /\ nodeCounter' = nodeCounter
              /\ edgeCounter' = edgeCounter
              /\ dragActive'
        /\ (dragActive /\ eventLog' /= << >> /\ eventLog'[1].name = "mouseup") =>
              /\ ~dragActive'
              /\ firstSelectedSphere' = firstSelectedSphere
              /\ selectedEdge' = selectedEdge
              /\ spheres' = spheres
              /\ edges' = edges ]_vars

\* A move of the pointer dragged the selected node to a point where no
\* node is created, and the edge to the other node, which stayed, follows.
C30_Witness ==
    /\ LastEventIs("mousemove")
    /\ dragActive
    /\ firstSelectedSphere /= null
    /\ spheres[firstSelectedSphere].position.z /= cameraPosition.z - previewDistance
    /\ spheres[firstSelectedSphere].position
          = intersectPlane(mouse, spheres[firstSelectedSphere].position.y)[1]
    /\ \E k \in 1..Len(edges) :
          /\ edges[k].sphere2 = firstSelectedSphere
          /\ edges[k].sphere1 /= firstSelectedSphere
          /\ spheres[edges[k].sphere1].position /= spheres[firstSelectedSphere].position
          /\ edges[k].positions = LineFollowing(spheres, edges[k])

\* The number of siblings of edge i created before it: the edge list is in
\* creation order while nothing is deleted.
CreationRank(a, b, i) == Cardinality({ j \in Family(a, b) : j < i })

\* s * ceil(k / 2) in units of baseOffset, s = +1 for even k and -1 for odd k.
AlternatingOffset(k) ==
    IF k % 2 = 0 THEN (k \div 2) * baseOffset ELSE 0 - ((k + 1) \div 2) * baseOffset

\* C31: while nothing was deleted, the k-th edge created between two
\* distinct nodes (k = 0, 1, 2, ...) has the offset s * ceil(k / 2) * baseOffset
\* with s = +1 for even k and -1 for odd k, at its creation and after every
\* later creation of a sibling.
C31_CreationOffsetsAlternate ==
    \A a, b \in 1..Len(spheres) :
        a < b => \A i \in Family(a, b) :
                     edges[i].parallelOffset = << AlternatingOffset(CreationRank(a, b, i)) >>

\* A third edge was just created between two nodes: the siblings have, in
\* creation order, the offsets 0, -baseOffset and +baseOffset.
C31_Witness ==
    /\ LastClickOnSphere
    /\ Len(edges) = 3
    /\ eventLog[1].edgeCount = 2
    /\ Family(1, 2) = { 1, 2, 3 }
    /\ edges[1].parallelOffset = << 0 >>
    /\ edges[2].parallelOffset = << 0 - baseOffset >>
    /\ edges[3].parallelOffset = << baseOffset >>

\* The index in the edge list of edge i once the edge at index k left it.
DownEdge(i, k) == IF i > k THEN i - 1 ELSE i

\* C32: when the delete key removes one edge of a family of parallel edges,
\* the re-centering keeps the order of the siblings left: one that had a
\* smaller offset than another still has a smaller offset than it.
C32_RecenterKeepsOrder ==
    [][ \A k \in 1..Len(edges) :
          (DeleteEdgeStep(k) /\ ~edges[k].isLoop) =>
              LET siblings == Family(edges[k].sphere1, edges[k].sphere2) \ { k }
              IN \A i, j \in siblings :
                    OffsetOrZero(edges[i]) < OffsetOrZero(edges[j])
                        => OffsetOrZero(edges'[DownEdge(i, k)])
                               < OffsetOrZero(edges'[DownEdge(j, k)]) ]_vars

\* The middle one of three parallel edges was just deleted: the two
\* siblings left were re-centered to -baseOffset and 0.
C32_Witness ==
    /\ LastKeyWas("d")
    /\ eventLog[1].selectedEdge = 1
    /\ eventLog[1].edgeCount = 3
    /\ Len(spheres) = 2
    /\ Family(1, 2) = { 1, 2 }
    /\ edges[1].parallelOffset = << 0 - baseOffset >>
    /\ edges[2].parallelOffset = << 0 >>

\* C33: whenever the graph-changed notification fires, what a subscriber
\* reads is consistent: the ends of every edge are in the node list, the
\* nodes are labelled v1..vN and the edges e1..eM, and the selected node
\* and the selected edge, if any, are in the lists.
C33_NotifiedStateConsistent ==
    \A i \in 2..Len(eventLog) :
        eventLog[i].name = "onGraphChanged" =>
            LET read == eventLog[i].arg
                nodes == 1..Len(read.nodeLabels)
                edgs == 1..Len(read.edgeLabels)
            IN /\ \A k \in edgs : read.ends[k][1] \in nodes /\ read.ends[k][2] \in nodes
               /\ \A n \in nodes : read.nodeLabels[n] = NodeLabelText(n)
               /\ \A k \in edgs : read.edgeLabels[k] = EdgeLabelText(k)
               /\ read.selectedNode = null \/ read.selectedNode \in nodes
               /\ read.selectedEdge = null \/ read.selectedEdge \in edgs

\* C34: an event that made a node selected invoked onNodeSelected with
\* that node, and an event that went from a selected node to no selected
\* node (second click, right-click, delete key, selecting an edge, clear
\* graph) invoked onNodeDeselected.
C34_SelectionNotified ==
    eventLog /= << >> =>
        /\ (eventLog[1].selectedNode = null /\ firstSelectedSphere /= null) =>
               \E i \in 2..Len(eventLog) :
                   /\ eventLog[i].name = "onNodeSelected"
                   /\ eventLog[i].arg.node = firstSelectedSphere
        /\ (eventLog[1].selectedNode /= null /\ firstSelectedSphere = null) =>
               Fired("onNodeDeselected")

\* C35: at every event boundary a selected node is in the node list and a
\* selected edge is in the edge list, and after the delete key removed a
\* node or an edge, or after clearGraph, nothing is selected.
C35_SelectionLive ==
    /\ firstSelectedSphere = null \/ firstSelectedSphere \in 1..Len(spheres)
    /\ selectedEdge = null \/ selectedEdge \in 1..Len(edges)
    /\ ( \/ LastEventIs("clearGraph")
         \/ /\ LastKeyWas("d")
            /\ (eventLog[1].selectedNode /= null \/ eventLog[1].selectedEdge /= null) )
       => (firstSelectedSphere = null /\ selectedEdge = null)

\* The delete key just removed the selected one of two nodes, with the
\* edge between them: a node is left and nothing is selected.
C35_Witness ==
    /\ LastKeyWas("d")
    /\ eventLog[1].selectedNode /= null
    /\ eventLog[1].nodeCount = 2
    /\ eventLog[1].edgeCount >= 1
    /\ Len(spheres) = 1
    /\ edges = << >>
    /\ firstSelectedSphere = null
    /\ selectedEdge = null

\* C36: while the directed flag is true every edge of the list that is no
\* loop has an arrowhead and it is visible, also after an edge was created
\* or a node dragged; a loop never has an arrowhead; and while the flag is
\* false no edge of the list has a visible arrowhead.
C36_ArrowheadsFollowFlag ==
    \A k \in 1..Len(edges) :
        /\ edges[k].isLoop => edges[k].arrowHead = undefined
        /\ (directed /\ ~edges[k].isLoop) =>
               (edges[k].arrowHead /= undefined /\ edges[k].arrowHead[1].visible)
        /\ ~directed => (edges[k].arrowHead = undefined \/ ~edges[k].arrowHead[1].visible)

\* With the flag true a node with a loop and an edge to another node was
\* just dragged: the edge has a visible arrowhead, the loop has none.
C36_Witness ==
    /\ directed
    /\ LastEventIs("mousemove")
    /\ dragActive
    /\ firstSelectedSphere /= null
    /\ spheres[firstSelectedSphere].position.z /= cameraPosition.z - previewDistance
    /\ \E k \in 1..Len(edges) :
          /\ edges[k].isLoop
          /\ edges[k].sphere1 = firstSelectedSphere
          /\ edges[k].arrowHead = undefined
    /\ \E k \in 1..Len(edges) :
          /\ ~edges[k].isLoop
          /\ firstSelectedSphere \in { edges[k].sphere1, edges[k].sphere2 }
          /\ edges[k].arrowHead /= undefined
          /\ edges[k].arrowHead[1].visible

\* C37: every arrowhead in the scene is the arrowhead of an edge of the
\* edge list: none is left of an edge that was removed, so that while the
\* directed flag is false the scene holds no visible arrowhead at all.
C37_NoOrphanArrowheads ==
    /\ orphanArrowHeads = {}
    /\ ~directed =>
          /\ \A a \in orphanArrowHeads : ~a.visible
          /\ \A k \in 1..Len(edges) :
                edges[k].arrowHead = undefined \/ ~edges[k].arrowHead[1].visible

\* C38: an arrowhead an edge has was computed from the offset the edge has
\* now and from the positions its ends have now.
C38_ArrowheadsCurrent ==
    \A k \in 1..Len(edges) :
        edges[k].arrowHead /= undefined =>
            edges[k].arrowHead[1].curve = LineFollowing(spheres, edges[k])

\* C39: with the callbacks wired as main.ts wires them, the Node Settings
\* folder of the control panel is shown exactly while a node is selected.
C39_NodeSettingsFollowSelection ==
    (nodeFolderDisplay = "block") <=> (firstSelectedSphere /= null)

====
